---------------------------- MODULE Spec2Model ----------------------------
(***************************************************************************)
(* Model of ros_ir_avoidance/scripts/infrared_avoider.py: the node         *)
(* InfraredObstacleAvoider, its three sensor callbacks, the decision       *)
(* logic avoid_obstacle and the loop of run with its finally block.        *)
(*                                                                         *)
(* Numbers.  A Python float is modelled as a tagged pair: <<"fin", n>> is  *)
(* the finite value n/100 (centimetres for distances, cm/s and            *)
(* centirad/s for speeds), <<"inf", 0>> is float('inf') and <<"nan", 0>>  *)
(* is a NaN.  Comparisons follow IEEE 754 as Python applies them: every   *)
(* ordered comparison with a NaN is False.                                 *)
(***************************************************************************)
EXTENDS Integers, Sequences, FiniteSets, TLC

VARIABLES
    pc,                  \* position of the main thread
    obstacle_threshold,  \* self.obstacle_threshold
    left_dist,           \* self.left_dist
    front_dist,          \* self.front_dist
    right_dist,          \* self.right_dist
    shutdown,            \* rospy.is_shutdown()
    cmd_vel,             \* the last Twist published on /cmd_vel
    n_published,         \* number of Twists published on /cmd_vel
    ticks,               \* number of loop iterations entered
    delivered,           \* history: the last sensor message delivered
    quiet,               \* history: ticks published since the last callback ran
    signal_at,           \* history: n_published when shutdown was signalled
    twist,               \* avoid_obstacle's local twist, while it is stepped
    operand,             \* the left operand loaded at line 57, while stepped
    held                 \* history: the values each field held during the call

\* the variables only the stepped execution of avoid_obstacle uses
locals == <<twist, operand, held>>

vars == <<pc, obstacle_threshold, left_dist, front_dist, right_dist,
          shutdown, cmd_vel, n_published, ticks, delivered, quiet, signal_at,
          twist, operand, held>>

----------------------------------------------------------------------------
(* Bounds *)

MaxTicks == 2

----------------------------------------------------------------------------
(* Floats *)

Fin(n) == <<"fin", n>>
Inf == <<"inf", 0>>
NaN == <<"nan", 0>>

IsFin(a) == a[1] = "fin"
IsNaN(a) == a[1] = "nan"

\* a < b on floats
Lt(a, b) ==
    IF IsNaN(a) \/ IsNaN(b) THEN FALSE
    ELSE IF IsFin(a) /\ IsFin(b) THEN a[2] < b[2]
    ELSE IsFin(a) /\ ~IsFin(b)

\* a > b on floats
Gt(a, b) == Lt(b, a)

\* a == b on floats
Eq(a, b) == ~IsNaN(a) /\ ~IsNaN(b) /\ a = b

\* a >= b on floats
Ge(a, b) == Gt(a, b) \/ Eq(a, b)

\* -a
Neg(a) == IF IsFin(a) THEN Fin(0 - a[2]) ELSE a

\* a * 1.2 (exact on the multiples of 5 the model uses; the rounding of
\* the double product is not modelled)
Times1_2(a) ==
    IF IsFin(a) THEN Fin((a[2] * 12) \div 10)
    ELSE a

\* a * 0.5 (exact on the even values the model uses)
Times0_5(a) ==
    IF IsFin(a) THEN Fin((a[2] * 5) \div 10)
    ELSE a

----------------------------------------------------------------------------
(* Inputs *)

\* values of msg.range a sensor driver can deliver
Ranges == {Fin(-5), Fin(20), Fin(30), Fin(36), Inf, NaN}

\* values the parameter server can hold for ~obstacle_threshold
ParamValues == {Fin(30), Fin(0), Inf, NaN}

Unset == <<"unset", 0>>
NoMsg == <<"none", Unset>>

----------------------------------------------------------------------------
(* Parameters set by __init__ *)

linear_speed == Fin(20)
angular_speed == Fin(50)

\* geometry_msgs Twist, reduced to the two fields the node sets
Twist(x, z) == [linear_x |-> x, angular_z |-> z]

\* nothing published yet
NoTwist == Twist(Unset, Unset)

\* Twist(): every field 0.0
ZeroTwist == Twist(Fin(0), Fin(0))

----------------------------------------------------------------------------
(* avoid_obstacle: the decision *)

\* variant of InitialDist: 0.0, "nothing measured", as the initial reading
InitialDistZero == Fin(0)

\* float('inf'), the initial value of the three readings
InitialDist == Inf

\* shutdown not signalled yet
NoSignal == 0 - 1

\* no call of avoid_obstacle in progress
NoHeld == [left |-> {}, front |-> {}, right |-> {}]

\* variant of FrontBlocked: a reading that is not finite counts as blocked
FrontBlockedOrNotFinite(front, thr) == Lt(front, thr) \/ ~IsFin(front)

\* variant of FrontBlocked: hysteresis, a halted robot stays halted until
\* the front reading clears the threshold by the factor 1.2
FrontBlockedHysteresis(front, thr) ==
    \/ Lt(front, thr)
    \/ (cmd_vel.linear_x = Fin(0) /\ Lt(front, Times1_2(thr)))

\* variant of FrontBlocked: <= in place of <
FrontBlockedLe(front, thr) == Lt(front, thr) \/ Eq(front, thr)

\* if self.front_dist < self.obstacle_threshold
FrontBlocked(front, thr) == Lt(front, thr)

\* variant of BlockedTwist: >= in place of >, a tie turns left
BlockedTwistTieLeft(left, right) ==
    IF Ge(left, right)
    THEN Twist(Fin(0), angular_speed)
    ELSE Twist(Fin(0), Neg(angular_speed))

\* variant of BlockedTwist: on a tie, turn away from the last turn
BlockedTwistAlternateOnTie(left, right) ==
    IF Gt(left, right)
       \/ (Eq(left, right) /\ cmd_vel = Twist(Fin(0), Neg(angular_speed)))
    THEN Twist(Fin(0), angular_speed)
    ELSE Twist(Fin(0), Neg(angular_speed))

\* the front-blocked branch: halt and turn to the side with more room
BlockedTwist(left, right) ==
    IF Gt(left, right)
    THEN Twist(Fin(0), angular_speed)
    ELSE Twist(Fin(0), Neg(angular_speed))

\* self.obstacle_threshold * 1.2, the limit of the left check
LeftLimit(thr) == Times1_2(thr)

\* variant of RightLimit: the factor 1.2 left out
RightLimitNoMargin(thr) == thr

\* self.obstacle_threshold * 1.2, the limit of the right check
RightLimit(thr) == Times1_2(thr)

\* variant of ClearTwist: a nudge halts the forward motion
ClearTwistHaltOnNudge(left, right, thr) ==
    IF Lt(left, LeftLimit(thr))
    THEN Twist(Fin(0), Neg(Times0_5(angular_speed)))
    ELSE IF Lt(right, RightLimit(thr))
    THEN Twist(Fin(0), Times0_5(angular_speed))
    ELSE Twist(linear_speed, Fin(0))

\* variant of ClearTwist: the right check before the left check
ClearTwistRightFirst(left, right, thr) ==
    IF Lt(right, RightLimit(thr))
    THEN Twist(linear_speed, Times0_5(angular_speed))
    ELSE IF Lt(left, LeftLimit(thr))
    THEN Twist(linear_speed, Neg(Times0_5(angular_speed)))
    ELSE Twist(linear_speed, Fin(0))

\* the front-clear branch: forward, with a nudge away from a near side
ClearTwist(left, right, thr) ==
    IF Lt(left, LeftLimit(thr))
    THEN Twist(linear_speed, Neg(Times0_5(angular_speed)))
    ELSE IF Lt(right, RightLimit(thr))
    THEN Twist(linear_speed, Times0_5(angular_speed))
    ELSE Twist(linear_speed, Fin(0))

\* variant of AvoidPublishes: publish only on the front-clear branch
AvoidPublishesClearOnly(left, front, right, thr) ==
    IF FrontBlocked(front, thr)
    THEN << >>
    ELSE << ClearTwist(left, right, thr) >>

\* the Twists one call of avoid_obstacle publishes, in order
AvoidPublishes(left, front, right, thr) ==
    IF FrontBlocked(front, thr)
    THEN << BlockedTwist(left, right) >>
    ELSE << ClearTwist(left, right, thr) >>

\* variant of StopTwist: the forward command instead of the zero Twist
StopTwistKeepMoving == Twist(linear_speed, Fin(0))

\* the Twist the finally block of run publishes
StopTwist == ZeroTwist

\* variant of StoredRange: a negative range clamped to 0
StoredRangeClamped(range) == IF Lt(range, Fin(0)) THEN Fin(0) ELSE range

\* the value a callback stores for msg.range
StoredRange(range) == range

\* self.cmd_vel_pub.publish, once for each Twist of msgs
LastPublished(msgs) == IF msgs = << >> THEN cmd_vel ELSE msgs[Len(msgs)]

----------------------------------------------------------------------------
(* State machine *)

Init ==
    /\ pc = "main"
    /\ obstacle_threshold = Unset
    /\ left_dist = Unset
    /\ front_dist = Unset
    /\ right_dist = Unset
    /\ shutdown = FALSE
    /\ cmd_vel = NoTwist
    /\ n_published = 0
    /\ ticks = 0
    /\ delivered = NoMsg
    /\ quiet = 0
    /\ signal_at = NoSignal
    /\ twist = NoTwist
    /\ operand = Unset
    /\ held = NoHeld

\* InfraredObstacleAvoider(): reads the parameter, sets the readings to
\* infinity, subscribes; no check of the parameter and no way to fail on it
Construct ==
    /\ pc = "main"
    /\ \E p \in ParamValues : obstacle_threshold' = p
    /\ left_dist' = InitialDist
    /\ front_dist' = InitialDist
    /\ right_dist' = InitialDist
    /\ pc' = "loop"
    /\ UNCHANGED <<shutdown, cmd_vel, n_published, ticks, delivered, quiet,
                   signal_at>>
    /\ UNCHANGED locals

\* the subscribers deliver from construction until the process ends
Subscribed == pc \notin {"main", "done"}

left_cb ==
    /\ Subscribed
    /\ \E range \in Ranges :
        /\ left_dist' = StoredRange(range)
        /\ delivered' = <<"left", range>>
    /\ quiet' = 0
    /\ UNCHANGED <<pc, obstacle_threshold, front_dist, right_dist, shutdown,
                   cmd_vel, n_published, ticks, signal_at>>
    /\ UNCHANGED locals

front_cb ==
    /\ Subscribed
    /\ \E range \in Ranges :
        /\ front_dist' = StoredRange(range)
        /\ delivered' = <<"front", range>>
    /\ quiet' = 0
    /\ UNCHANGED <<pc, obstacle_threshold, left_dist, right_dist, shutdown,
                   cmd_vel, n_published, ticks, signal_at>>
    /\ UNCHANGED locals

right_cb ==
    /\ Subscribed
    /\ \E range \in Ranges :
        /\ right_dist' = StoredRange(range)
        /\ delivered' = <<"right", range>>
    /\ quiet' = 0
    /\ UNCHANGED <<pc, obstacle_threshold, left_dist, front_dist, shutdown,
                   cmd_vel, n_published, ticks, signal_at>>
    /\ UNCHANGED locals

\* the shutdown signal (Ctrl-C, rosnode kill) arrives
SignalShutdown ==
    /\ Subscribed
    /\ ~shutdown
    /\ shutdown' = TRUE
    /\ signal_at' = n_published
    /\ UNCHANGED <<pc, obstacle_threshold, left_dist, front_dist, right_dist,
                   cmd_vel, n_published, ticks, delivered, quiet>>
    /\ UNCHANGED locals

\* variant of LoopEnter: while True, the shutdown flag is not tested
LoopEnterIgnoringShutdown ==
    /\ pc = "loop"
    /\ ticks < MaxTicks
    /\ ticks' = ticks + 1
    /\ pc' = "body"
    /\ UNCHANGED <<obstacle_threshold, left_dist, front_dist, right_dist,
                   shutdown, cmd_vel, n_published, delivered, quiet,
                   signal_at>>
    /\ UNCHANGED locals

\* while not rospy.is_shutdown(): enter the body
LoopEnter ==
    /\ pc = "loop"
    /\ ~shutdown
    /\ ticks < MaxTicks
    /\ ticks' = ticks + 1
    /\ pc' = "body"
    /\ UNCHANGED <<obstacle_threshold, left_dist, front_dist, right_dist,
                   shutdown, cmd_vel, n_published, delivered, quiet,
                   signal_at>>
    /\ UNCHANGED locals

\* while not rospy.is_shutdown(): leave the loop
LoopExit ==
    /\ pc = "loop"
    /\ shutdown
    /\ pc' = "finally"
    /\ UNCHANGED <<obstacle_threshold, left_dist, front_dist, right_dist,
                   shutdown, cmd_vel, n_published, ticks, delivered, quiet,
                   signal_at>>
    /\ UNCHANGED locals

\* self.avoid_obstacle()
avoid_obstacle ==
    /\ pc = "body"
    /\ LET msgs == AvoidPublishes(left_dist, front_dist, right_dist,
                                  obstacle_threshold)
       IN /\ cmd_vel' = LastPublished(msgs)
          /\ n_published' = n_published + Len(msgs)
    /\ pc' = "sleep"
    /\ quiet' = quiet + 1
    /\ UNCHANGED <<obstacle_threshold, left_dist, front_dist, right_dist,
                   shutdown, ticks, delivered, signal_at>>
    /\ UNCHANGED locals

\* self.rate.sleep() returns
RateSleep ==
    /\ pc = "sleep"
    /\ pc' = "loop"
    /\ UNCHANGED <<obstacle_threshold, left_dist, front_dist, right_dist,
                   shutdown, cmd_vel, n_published, ticks, delivered, quiet,
                   signal_at>>
    /\ UNCHANGED locals

\* self.rate.sleep() raises ROSInterruptException: except, then finally
RateSleepInterrupted ==
    /\ pc = "sleep"
    /\ shutdown
    /\ pc' = "finally"
    /\ UNCHANGED <<obstacle_threshold, left_dist, front_dist, right_dist,
                   shutdown, cmd_vel, n_published, ticks, delivered, quiet,
                   signal_at>>
    /\ UNCHANGED locals

\* finally: twist = Twist(); self.cmd_vel_pub.publish(twist); run returns
RunFinally ==
    /\ pc = "finally"
    /\ cmd_vel' = StopTwist
    /\ n_published' = n_published + 1
    /\ pc' = "done"
    /\ UNCHANGED <<obstacle_threshold, left_dist, front_dist, right_dist,
                   shutdown, ticks, delivered, quiet, signal_at>>
    /\ UNCHANGED locals

Next ==
    \/ Construct
    \/ left_cb
    \/ front_cb
    \/ right_cb
    \/ SignalShutdown
    \/ LoopEnter
    \/ LoopExit
    \/ avoid_obstacle
    \/ RateSleep
    \/ RateSleepInterrupted
    \/ RunFinally

Spec == Init /\ [][Next]_vars

\* the main thread is scheduled: the loop test, the body, the return or
\* the interruption of rate.sleep() and the finally block each take place
\* once they can
FairSpec ==
    /\ Spec
    /\ WF_vars(LoopExit)
    /\ WF_vars(avoid_obstacle)
    /\ WF_vars(RateSleep \/ RateSleepInterrupted)
    /\ WF_vars(RunFinally)

----------------------------------------------------------------------------
(* avoid_obstacle stepped: one action for each read of a field, so that    *)
(* the sensor callbacks (other threads) run between the reads.  A read of  *)
(* an attribute is one bytecode and yields the whole float.  The second    *)
(* read of front_dist at line 54 only formats the log line.                *)

\* values of msg.range delivered while the call is stepped
RaceRanges == {Fin(20), Fin(30), Inf}

\* the history variables of the loop of run, not used here
run_history == <<shutdown, delivered, quiet, signal_at>>

\* positions inside avoid_obstacle
InCall == pc \in {"l53", "l55", "l57", "l57r", "l66", "l70", "l74", "l78"}

\* history: the field of sensor holds value from now on
HeldAfter(sensor, value) ==
    IF InCall THEN [held EXCEPT ![sensor] = @ \cup {value}] ELSE held

\* the node as constructed with the default threshold
InitRace ==
    /\ pc = "loop"
    /\ obstacle_threshold = Fin(30)
    /\ left_dist = InitialDist
    /\ front_dist = InitialDist
    /\ right_dist = InitialDist
    /\ shutdown = FALSE
    /\ cmd_vel = NoTwist
    /\ n_published = 0
    /\ ticks = 0
    /\ delivered = NoMsg
    /\ quiet = 0
    /\ signal_at = NoSignal
    /\ twist = NoTwist
    /\ operand = Unset
    /\ held = NoHeld

race_left_cb ==
    /\ \E range \in RaceRanges :
        /\ left_dist' = StoredRange(range)
        /\ held' = HeldAfter("left", left_dist')
    /\ UNCHANGED <<pc, obstacle_threshold, front_dist, right_dist, cmd_vel,
                   n_published, ticks, twist, operand>>
    /\ UNCHANGED run_history

race_front_cb ==
    /\ \E range \in RaceRanges :
        /\ front_dist' = StoredRange(range)
        /\ held' = HeldAfter("front", front_dist')
    /\ UNCHANGED <<pc, obstacle_threshold, left_dist, right_dist, cmd_vel,
                   n_published, ticks, twist, operand>>
    /\ UNCHANGED run_history

race_right_cb ==
    /\ \E range \in RaceRanges :
        /\ right_dist' = StoredRange(range)
        /\ held' = HeldAfter("right", right_dist')
    /\ UNCHANGED <<pc, obstacle_threshold, left_dist, front_dist, cmd_vel,
                   n_published, ticks, twist, operand>>
    /\ UNCHANGED run_history

\* run calls self.avoid_obstacle(); line 50: twist = Twist()
line50 ==
    /\ pc = "loop"
    /\ ticks < MaxTicks
    /\ ticks' = ticks + 1
    /\ twist' = ZeroTwist
    /\ held' = [left |-> {left_dist}, front |-> {front_dist},
                right |-> {right_dist}]
    /\ pc' = "l53"
    /\ UNCHANGED <<obstacle_threshold, left_dist, front_dist, right_dist,
                   cmd_vel, n_published, operand>>
    /\ UNCHANGED run_history

\* line 53: if self.front_dist < self.obstacle_threshold
line53 ==
    /\ pc = "l53"
    /\ pc' = IF FrontBlocked(front_dist, obstacle_threshold)
             THEN "l55" ELSE "l66"
    /\ UNCHANGED <<obstacle_threshold, left_dist, front_dist, right_dist,
                   cmd_vel, n_published, ticks, twist, operand, held>>
    /\ UNCHANGED run_history

\* twist.linear.x = 0.0
BlockedLinearX == Fin(0)

\* line 55
line55 ==
    /\ pc = "l55"
    /\ twist' = [twist EXCEPT !.linear_x = BlockedLinearX]
    /\ pc' = "l57"
    /\ UNCHANGED <<obstacle_threshold, left_dist, front_dist, right_dist,
                   cmd_vel, n_published, ticks, operand, held>>
    /\ UNCHANGED run_history

\* line 57: self.left_dist is loaded
line57_left ==
    /\ pc = "l57"
    /\ operand' = left_dist
    /\ pc' = "l57r"
    /\ UNCHANGED <<obstacle_threshold, left_dist, front_dist, right_dist,
                   cmd_vel, n_published, ticks, twist, held>>
    /\ UNCHANGED run_history

\* line 57: self.right_dist is loaded and compared; lines 59 and 62
line57_right ==
    /\ pc = "l57r"
    /\ twist' = [twist EXCEPT
                   !.angular_z = BlockedTwist(operand, right_dist).angular_z]
    /\ operand' = Unset
    /\ pc' = "l78"
    /\ UNCHANGED <<obstacle_threshold, left_dist, front_dist, right_dist,
                   cmd_vel, n_published, ticks, held>>
    /\ UNCHANGED run_history

\* variant of ClearLinearX: the speed chosen on a second read of front_dist
ClearLinearXReread ==
    IF Lt(front_dist, obstacle_threshold) THEN Fin(0) ELSE linear_speed

\* twist.linear.x = self.linear_speed
ClearLinearX == linear_speed

\* lines 66 and 67
line66 ==
    /\ pc = "l66"
    /\ twist' = Twist(ClearLinearX, Fin(0))
    /\ pc' = "l70"
    /\ UNCHANGED <<obstacle_threshold, left_dist, front_dist, right_dist,
                   cmd_vel, n_published, ticks, operand, held>>
    /\ UNCHANGED run_history

\* line 70: if self.left_dist < self.obstacle_threshold * 1.2; line 72
line70 ==
    /\ pc = "l70"
    /\ IF Lt(left_dist, LeftLimit(obstacle_threshold))
       THEN /\ twist' = [twist EXCEPT
                           !.angular_z = Neg(Times0_5(angular_speed))]
            /\ pc' = "l78"
       ELSE /\ twist' = twist
            /\ pc' = "l74"
    /\ UNCHANGED <<obstacle_threshold, left_dist, front_dist, right_dist,
                   cmd_vel, n_published, ticks, operand, held>>
    /\ UNCHANGED run_history

\* line 74: elif self.right_dist < self.obstacle_threshold * 1.2; line 76
line74 ==
    /\ pc = "l74"
    /\ twist' = IF Lt(right_dist, RightLimit(obstacle_threshold))
                THEN [twist EXCEPT !.angular_z = Times0_5(angular_speed)]
                ELSE twist
    /\ pc' = "l78"
    /\ UNCHANGED <<obstacle_threshold, left_dist, front_dist, right_dist,
                   cmd_vel, n_published, ticks, operand, held>>
    /\ UNCHANGED run_history

\* line 78: self.cmd_vel_pub.publish(twist); the call returns
line78 ==
    /\ pc = "l78"
    /\ cmd_vel' = twist
    /\ n_published' = n_published + 1
    /\ twist' = NoTwist
    /\ pc' = "sleep"
    /\ UNCHANGED <<obstacle_threshold, left_dist, front_dist, right_dist,
                   ticks, operand, held>>
    /\ UNCHANGED run_history

NextRace ==
    \/ race_left_cb
    \/ race_front_cb
    \/ race_right_cb
    \/ line50
    \/ line53
    \/ line55
    \/ line57_left
    \/ line57_right
    \/ line66
    \/ line70
    \/ line74
    \/ line78
    \/ RateSleep

SpecRace == InitRace /\ [][NextRace]_vars

----------------------------------------------------------------------------
(* Vocabulary of the properties *)

\* a step that is one whole execution of avoid_obstacle
TickStep == pc = "body" /\ pc' = "sleep"

\* obstacle_threshold * side_margin_factor, the factor being 1.2
SideMargin == Times1_2(obstacle_threshold)

\* angular_speed * 0.5 and its negation: the two nudges
LeftNudge == Times0_5(angular_speed)
RightNudge == Neg(Times0_5(angular_speed))

\* the front-blocked check fires / the front-clear path is taken
FrontIsBlocked == Lt(front_dist, obstacle_threshold)
FrontIsClear == ~Lt(front_dist, obstacle_threshold)

\* a tick has just published and the readings it used are still stored
JustTicked == pc = "sleep" /\ ticks > 0 /\ n_published > 0

----------------------------------------------------------------------------
(* C1: every tick computed while front < obstacle_threshold emits          *)
(* linear_x = 0, with angular_z = +angular_speed if left > right and       *)
(* angular_z = -angular_speed otherwise (a tie included); the side checks  *)
(* do not alter the command.                                               *)
C1_FrontBlockedCommand ==
    [][(TickStep /\ Lt(front_dist, obstacle_threshold)) =>
          /\ cmd_vel'.linear_x = Fin(0)
          /\ Gt(left_dist, right_dist) => cmd_vel'.angular_z = angular_speed
          /\ ~Gt(left_dist, right_dist) =>
                cmd_vel'.angular_z = Neg(angular_speed)]_vars

\* a tie of two near sides behind a blocked front: turned right
C1_Witness ==
    /\ JustTicked
    /\ Lt(front_dist, obstacle_threshold)
    /\ Eq(left_dist, right_dist)
    /\ Lt(left_dist, SideMargin)
    /\ cmd_vel = Twist(Fin(0), Neg(angular_speed))

(* C2: every tick computed while front >= obstacle_threshold emits         *)
(* linear_x = linear_speed, a side override or not, and angular_z = 0      *)
(* when neither side is below obstacle_threshold * 1.2.                    *)
C2_FrontClearCommand ==
    [][(TickStep /\ Ge(front_dist, obstacle_threshold)) =>
          /\ cmd_vel'.linear_x = linear_speed
          /\ (~Lt(left_dist, SideMargin) /\ ~Lt(right_dist, SideMargin)) =>
                cmd_vel'.angular_z = Fin(0)]_vars

\* forward at full speed while a side override applies
C2_Witness ==
    /\ JustTicked
    /\ Ge(front_dist, obstacle_threshold)
    /\ Lt(right_dist, SideMargin)
    /\ cmd_vel.linear_x = linear_speed
    /\ cmd_vel.angular_z # Fin(0)

(* C3: front clear (front >= obstacle_threshold) and both sides below      *)
(* obstacle_threshold * 1.2: the left check wins, angular_z =              *)
(* -angular_speed * 0.5, whichever side is nearer.                         *)
C3_LeftCheckWins ==
    [][(/\ TickStep
        /\ Ge(front_dist, obstacle_threshold)
        /\ Lt(left_dist, SideMargin)
        /\ Lt(right_dist, SideMargin)) =>
          cmd_vel'.angular_z = RightNudge]_vars

\* both sides near, the right one nearer, and still the right-turn nudge
C3_Witness ==
    /\ JustTicked
    /\ Ge(front_dist, obstacle_threshold)
    /\ Lt(left_dist, SideMargin)
    /\ Lt(right_dist, left_dist)
    /\ cmd_vel.angular_z = RightNudge

(* C4: on the front-clear path (the front-blocked check did not fire),     *)
(* with left not below obstacle_threshold * 1.2 and right below it, the    *)
(* tick emits (linear_speed, +angular_speed * 0.5); and a tick emits       *)
(* angular_z = +angular_speed * 0.5 in no other situation.                 *)
C4_LeftNudgeExactly ==
    [][TickStep =>
          ((/\ FrontIsClear
            /\ ~Lt(left_dist, SideMargin)
            /\ Lt(right_dist, SideMargin))
           <=> cmd_vel' = Twist(linear_speed, LeftNudge))
          /\ (cmd_vel'.angular_z = LeftNudge =>
                cmd_vel'.linear_x = linear_speed)]_vars

\* left far, right near, front clear: nudged left
C4_Witness ==
    /\ JustTicked
    /\ FrontIsClear
    /\ ~Lt(left_dist, SideMargin)
    /\ Lt(right_dist, SideMargin)
    /\ cmd_vel = Twist(linear_speed, LeftNudge)

(* C5: the comparisons are strict: front exactly equal to                  *)
(* obstacle_threshold does not halt (linear_x = linear_speed), and a side  *)
(* reading exactly equal to obstacle_threshold * 1.2 triggers no nudge     *)
(* away from that side.                                                    *)
C5_StrictComparisons ==
    [][TickStep =>
          /\ Eq(front_dist, obstacle_threshold) =>
                cmd_vel'.linear_x = linear_speed
          /\ Eq(left_dist, SideMargin) => cmd_vel'.angular_z # RightNudge
          /\ Eq(right_dist, SideMargin) => cmd_vel'.angular_z # LeftNudge]_vars

\* front on the threshold, left on the side margin: straight ahead
C5_Witness ==
    /\ JustTicked
    /\ IsFin(obstacle_threshold)
    /\ Eq(front_dist, obstacle_threshold)
    /\ Eq(left_dist, SideMargin)
    /\ Eq(right_dist, SideMargin)
    /\ cmd_vel = Twist(linear_speed, Fin(0))

(* C6: once run has reached its finally block, the next step of the main   *)
(* thread publishes exactly one Twist, (0, 0), and ends the run; nothing   *)
(* is published while the block is pending or after the run has ended,     *)
(* and the run ends in no other way.                                       *)
C6_StopCommandIsLast ==
    [][/\ pc = "finally" =>
            IF pc' = "finally"
            THEN UNCHANGED <<cmd_vel, n_published>>
            ELSE /\ pc' = "done"
                 /\ cmd_vel' = ZeroTwist
                 /\ n_published' = n_published + 1
       /\ (pc' = "done" /\ pc # "done") => pc = "finally"
       /\ pc = "done" => UNCHANGED <<pc, cmd_vel, n_published>>]_vars

\* stopped after two ticks, the last of which commanded motion
C6_Witness ==
    /\ pc = "done"
    /\ ticks = 2
    /\ n_published = 3
    /\ cmd_vel = ZeroTwist
    /\ ~Lt(front_dist, obstacle_threshold)

(* C7: an obstacle_threshold that is not a positive finite number makes    *)
(* the construction fail: the loop is never entered and nothing is ever    *)
(* published.                                                              *)
ValidParameter(p) == IsFin(p) /\ p[2] > 0

C7_InvalidParameterHalts ==
    (pc # "main" /\ ~ValidParameter(obstacle_threshold)) =>
        /\ pc \notin {"loop", "body", "sleep"}
        /\ n_published = 0

(* C8: a NaN reading is treated as unknown: every tick emits the command   *)
(* computed with each NaN reading replaced by +infinity.                   *)
Unknown(d) == IF IsNaN(d) THEN Inf ELSE d

C8_NaNIsUnknown ==
    [][TickStep =>
          <<cmd_vel'>> = AvoidPublishes(Unknown(left_dist),
                                        Unknown(front_dist),
                                        Unknown(right_dist),
                                        obstacle_threshold)]_vars

(* C9: every execution of the loop body publishes exactly one Twist, on    *)
(* every branch; the steps of the loop are enabled whatever the sensors    *)
(* delivered, also when none ever delivered anything.                      *)
C9_OneCommandPerTick ==
    /\ pc = "body" => (n_published = ticks - 1 /\ ENABLED avoid_obstacle)
    /\ pc = "sleep" => (n_published = ticks /\ ENABLED RateSleep)
    /\ pc = "loop" => n_published = ticks
    /\ (pc = "loop" /\ ~shutdown /\ ticks < MaxTicks) => ENABLED LoopEnter

\* two ticks, two commands, and no sensor message so far
C9_Witness ==
    /\ pc = "sleep"
    /\ delivered = NoMsg
    /\ ticks = 2
    /\ n_published = 2

(* C10: a sensor callback stores the delivered range as it is in the       *)
(* field of its own sensor and changes nothing else: not the other two     *)
(* readings, not the parameter, not the position of the main thread, and   *)
(* it publishes nothing.                                                   *)
ReadingAfter(sensor) ==
    CASE sensor = "left" -> left_dist'
      [] sensor = "front" -> front_dist'
      [] sensor = "right" -> right_dist'

C10_CallbackFrame ==
    [][delivered' # delivered =>
          /\ ReadingAfter(delivered'[1]) = delivered'[2]
          /\ delivered'[1] # "left" => left_dist' = left_dist
          /\ delivered'[1] # "front" => front_dist' = front_dist
          /\ delivered'[1] # "right" => right_dist' = right_dist
          /\ UNCHANGED <<pc, obstacle_threshold, shutdown, cmd_vel,
                         n_published, ticks>>]_vars

\* a negative range stored as delivered, the other readings untouched
C10_Witness ==
    /\ delivered = <<"front", Fin(-5)>>
    /\ front_dist = Fin(-5)
    /\ left_dist = Fin(20)
    /\ right_dist = Inf
    /\ n_published = 0

(* C11: while no sensor message has ever been delivered (the three        *)
(* readings still hold the initial +infinity), every tick emits            *)
(* (linear_speed, 0).                                                      *)
C11_UnknownInputDefault ==
    [][(TickStep /\ delivered = NoMsg) =>
          cmd_vel' = Twist(linear_speed, Fin(0))]_vars

\* the first tick of a node with the default threshold, no message yet
C11_Witness ==
    /\ JustTicked
    /\ ticks = 1
    /\ delivered = NoMsg
    /\ obstacle_threshold = Fin(30)
    /\ front_dist = Inf
    /\ cmd_vel = Twist(linear_speed, Fin(0))

(* C12: an infinite reading never triggers the branch keyed on its         *)
(* sensor: with front infinite no tick emits linear_x = 0, with left       *)
(* infinite no tick emits the right-turn nudge, with right infinite no     *)
(* tick emits the left-turn nudge.                                         *)
C12_UnknownNeverTriggers ==
    [][TickStep =>
          /\ front_dist = Inf => cmd_vel'.linear_x # Fin(0)
          /\ left_dist = Inf => cmd_vel'.angular_z # RightNudge
          /\ right_dist = Inf => cmd_vel'.angular_z # LeftNudge]_vars

\* front and left unknown after messages arrived, right near: nudged left
C12_Witness ==
    /\ JustTicked
    /\ delivered # NoMsg
    /\ front_dist = Inf
    /\ left_dist = Inf
    /\ Lt(right_dist, SideMargin)
    /\ cmd_vel = Twist(linear_speed, LeftNudge)

(* C13: a tick changes neither the readings nor the parameter, and a tick  *)
(* that follows a tick with no sensor callback in between emits the same   *)
(* command as that tick.                                                   *)
C13_Idempotent ==
    [][TickStep =>
          /\ UNCHANGED <<left_dist, front_dist, right_dist,
                         obstacle_threshold>>
          /\ quiet >= 1 => cmd_vel' = cmd_vel]_vars

\* two ticks in a row on delivered readings, front blocked with a side tie
C13_Witness ==
    /\ pc = "sleep"
    /\ quiet = 2
    /\ delivered # NoMsg
    /\ Lt(front_dist, obstacle_threshold)
    /\ Eq(left_dist, right_dist)
    /\ cmd_vel = Twist(Fin(0), Neg(angular_speed))

(* C14: the command a tick emits is a function of the three readings       *)
(* stored at that tick and of the parameter alone: whatever messages and   *)
(* commands came before, the tick emits CommandOf of what is stored, so    *)
(* two histories that end in the same readings get the same command.       *)
CommandOf(left, front, right, thr) ==
    CASE Lt(front, thr) /\ Gt(left, right) ->
            Twist(Fin(0), angular_speed)
      [] Lt(front, thr) /\ ~Gt(left, right) ->
            Twist(Fin(0), Neg(angular_speed))
      [] ~Lt(front, thr) /\ Lt(left, Times1_2(thr)) ->
            Twist(linear_speed, RightNudge)
      [] ~Lt(front, thr) /\ ~Lt(left, Times1_2(thr))
            /\ Lt(right, Times1_2(thr)) ->
            Twist(linear_speed, LeftNudge)
      [] OTHER -> Twist(linear_speed, Fin(0))

C14_Memoryless ==
    [][TickStep =>
          cmd_vel' = CommandOf(left_dist, front_dist, right_dist,
                               obstacle_threshold)]_vars

\* a second tick, after a halt and new messages, on a front reading
\* between the threshold and the side margin: forward again
C14_Witness ==
    /\ JustTicked
    /\ ticks = 2
    /\ quiet = 1
    /\ delivered[1] = "front"
    /\ Ge(front_dist, obstacle_threshold)
    /\ Lt(front_dist, SideMargin)
    /\ cmd_vel.linear_x = linear_speed

(* C15: with the sensor callbacks running between the steps of            *)
(* avoid_obstacle, the command a call publishes is the decision on a      *)
(* triple (left, front, right) of which each component is a value its     *)
(* field held at some moment of the call; the three moments may differ,   *)
(* and no field enters one decision with two values.                      *)
C15_DecisionOnHeldValues ==
    [][(pc = "l78" /\ pc' = "sleep") =>
          /\ n_published' = n_published + 1
          /\ \E l \in held.left, f \in held.front, r \in held.right :
                <<cmd_vel'>> = AvoidPublishes(l, f, r, obstacle_threshold)
      ]_vars

\* front was blocked when read and is clear now, left changed during the
\* call too: the command published is the one for the values read
C15_Witness ==
    /\ pc = "sleep"
    /\ Cardinality(held.front) >= 2
    /\ Cardinality(held.left) >= 2
    /\ ~Lt(front_dist, obstacle_threshold)
    /\ cmd_vel = Twist(Fin(0), angular_speed)
    /\ <<cmd_vel>> # AvoidPublishes(left_dist, front_dist, right_dist,
                                    obstacle_threshold)

(* C16: the shutdown flag is tested once per loop iteration and the loop   *)
(* ends: once shutdown is signalled the run reaches its end (the main      *)
(* thread being scheduled), and between the signal and the final zero      *)
(* Twist at most one tick command is published, that of the iteration      *)
(* under way.                                                              *)
C16_ShutdownEndsLoop ==
    /\ [](shutdown =>
            /\ pc # "done" => n_published <= signal_at + 1
            /\ pc = "done" => n_published <= signal_at + 2
            /\ pc = "loop" => ~ENABLED LoopEnter)
    /\ (shutdown ~> pc = "done")

\* signalled while the body was under way: one tick command, then the stop
C16_Witness ==
    /\ pc = "done"
    /\ shutdown
    /\ signal_at = 0
    /\ n_published = 2
    /\ cmd_vel = ZeroTwist

(* C17: a tick emits one of five commands: (linear_speed, 0),              *)
(* (linear_speed, -angular_speed*0.5), (linear_speed, +angular_speed*0.5), *)
(* (0, +angular_speed), (0, -angular_speed).  So linear_x is never         *)
(* negative, the full turn rate goes with linear_x = 0 and with nothing    *)
(* else, and the zero Twist is published by the finally block only.        *)
TickCommands ==
    { Twist(linear_speed, Fin(0)),
      Twist(linear_speed, RightNudge),
      Twist(linear_speed, LeftNudge),
      Twist(Fin(0), angular_speed),
      Twist(Fin(0), Neg(angular_speed)) }

FullTurn(cmd) ==
    cmd.angular_z \in {angular_speed, Neg(angular_speed)}

C17_FiveCommands ==
    [][/\ TickStep =>
            /\ cmd_vel' \in TickCommands
            /\ ~Lt(cmd_vel'.linear_x, Fin(0))
            /\ FullTurn(cmd_vel') <=> cmd_vel'.linear_x = Fin(0)
            /\ cmd_vel' # ZeroTwist
       /\ (n_published' # n_published /\ cmd_vel' = ZeroTwist) =>
            pc = "finally"]_vars

\* the five commands are five: a halted robot turning left at full rate
C17_Witness ==
    /\ JustTicked
    /\ Cardinality(TickCommands) = 5
    /\ Lt(front_dist, obstacle_threshold)
    /\ Gt(left_dist, right_dist)
    /\ cmd_vel = Twist(Fin(0), angular_speed)

====
